---------------------------- MODULE Spec2Model ----------------------------
(***************************************************************************)
(* Benchmark & scoring engine of the Instagram analyzer                    *)
(* (services/benchmark: src/services/apify.js lines 157-415, the schema    *)
(* src/unnamed/part_000, the routes src/unnamed/part_002 and part_003).    *)
(*                                                                         *)
(* Numbers.  DECIMAL(n,2) columns and the values parseFloat reads from     *)
(* them are integers counting hundredths ("cents").  A value that the code *)
(* holds as a JavaScript number that need not have two decimals (a mean)   *)
(* is an exact rational <<num, den>> with den > 0.  Time is in hours.      *)
(* Rounding a double agrees with rounding the exact value except where the *)
(* exact value is a half: there the double may lie just below it (in       *)
(* IEEE-754 (23 / 40) * 100 is 57.49999999999999 and 0.015 is below 0.015).*)
(* For a percentile the halves that fall short are listed (ShortOfHalf);   *)
(* for a score and for toFixed(2) fpTieUp, fixed per behaviour, decides.   *)
(* SQL NULL (and the JavaScript null/undefined node-pg sends as NULL) is   *)
(* the string NULL for text columns and the empty tuple for numeric ones.  *)
(***************************************************************************)
EXTENDS Integers, Sequences, FiniteSets, TLC

VARIABLES
    now,          \* the database clock NOW(), in hours
    profiles,     \* table profiles: the set of its rows
    benchmarks,   \* table benchmarks: its rows in insertion order (id = position)
    fpTieUp,      \* whether an exact half, computed in binary floating point, rounds up
    pc,           \* per request: the await the call stands at
    seg,          \* per request: the arguments of getBenchmarks
    data,         \* per request: profiles.rows read by calculateBenchmarks
    result,       \* per request: the value getBenchmarks resolved to
    reads,        \* per request: number of corpus queries issued
    writes,       \* per request: number of benchmark upserts issued
    calls,        \* getBenchmarks calls started so far
    arg,          \* argument record of a pure function under check; body of a POST /api/analyze
    ret,          \* its return value; the response to the POST
    analysis      \* the POST /api/analyze in progress: its await and its locals

vars == <<now, profiles, benchmarks, fpTieUp, pc, seg, data, result, reads, writes, calls, arg, ret, analysis>>

sysvars == <<now, profiles, benchmarks, fpTieUp, pc, seg, data, result, reads, writes, calls, analysis>>

(***************************************************************************)
(* Bounds of the model                                                     *)
(***************************************************************************)
MaxTicks == 2      \* clock advances explored
MaxCalls == 2      \* getBenchmarks calls started in one behaviour
MaxSamples == 8    \* length of a distribution handed to calculatePercentile
MaxMetric == 4     \* largest metric and average handed to calculateOverallScore

(***************************************************************************)
(* Program constants                                                       *)
(***************************************************************************)
FreshHours == 24   \* INTERVAL '24 hours'
CorpusDays == 30   \* INTERVAL '30 days'

CorpusHours == CorpusDays * 24

TickHours == {12}

StartClock == CorpusHours

NULL == "NULL"

\* two callers of getBenchmarks whose awaits interleave
Requests == {1, 2}

\* SQL comparison a = b: never true when either side is NULL
SqlEq(a, b) == a # NULL /\ b # NULL /\ a = b

(***************************************************************************)
(* Exact arithmetic                                                        *)
(***************************************************************************)
RECURSIVE SumSeq(_)
SumSeq(s) == IF s = <<>> THEN 0 ELSE Head(s) + SumSeq(Tail(s))

\* Math.round of the double computed for the non-negative num/den
MathRound(num, den) ==
    LET q == num \div den
        r == num % den
    IN  IF 2 * r > den THEN q + 1
        ELSE IF 2 * r = den THEN (IF fpTieUp THEN q + 1 ELSE q)
        ELSE q

Rat(num, den) == <<num, den>>

RatEq(a, b) == a[1] * b[2] = b[1] * a[2]

RatLess(a, b) == a[1] * b[2] < b[1] * a[2]

\* x.toFixed(2) of the double computed for the non-negative num/den, read
\* back as cents
ToFixed2(num, den, tieUp) ==
    LET q == (100 * num) \div den
        r == (100 * num) % den
    IN  IF 2 * r > den THEN q + 1
        ELSE IF 2 * r = den THEN (IF tieUp THEN q + 1 ELSE q)
        ELSE q

\* p.post_frequency || 0, p.reel_percentage || 0 on a nullable numeric column
OrZero(m) == IF m = <<>> THEN 0 ELSE m[1]

(***************************************************************************)
(* Table profiles (schema part_000 lines 4-39), the columns the engine     *)
(* reads.                                                                  *)
(***************************************************************************)
Profile(u, ind, city, st, ctry, f, e, pf, reel, ls) ==
    [username |-> u, industry |-> ind, location_city |-> city,
     location_state |-> st, location_country |-> ctry,
     followers |-> f, engagement_rate |-> e, post_frequency |-> pf,
     reel_percentage |-> reel, last_scraped |-> ls]

CandidateProfiles ==
    { Profile("a", "fitness", "Austin", "TX", "US", 1, 1, <<>>, 40, StartClock - CorpusHours + 12),
      Profile("b", "fitness", "Dallas", "TX", "US", 2, 2, <<3>>, 25, StartClock),
      Profile("c", "fitness", NULL, NULL, "US", 2, 4, <<4>>, 0, StartClock) }

Segment(ind, city, st, ctry) ==
    [industry |-> ind, city |-> city, state |-> st, country |-> ctry]

Segments ==
    { Segment("fitness", "Austin", "TX", "US"),
      Segment("fitness", "Austin", NULL, NULL),
      Segment("fitness", NULL, NULL, "US"),
      Segment("kayaking", "Austin", NULL, NULL),
      Segment("constructor", "Austin", NULL, NULL) }

NoSegment == Segment(NULL, NULL, NULL, NULL)

NoResult == [pending |-> TRUE]

NoArg == [none |-> TRUE]

\* no POST /api/analyze in progress
NoAnalysis == [pc |-> "idle", profile |-> <<>>, scrapes |-> 0]

\* the orders in which a query without ORDER BY may return the rows S
RowOrders(S) ==
    { s \in [1..Cardinality(S) -> S] : \A i, j \in 1..Cardinality(S) : i # j => s[i] # s[j] }

Column(rows, c) == [i \in DOMAIN rows |-> rows[i][c]]

(***************************************************************************)
(* getBenchmarks, cached query (apify.js 183-190)                          *)
(***************************************************************************)
CacheFresh(row, t) == row.updated_at > t - FreshHours

CachedRows(s, t) ==
    { i \in DOMAIN benchmarks :
        /\ SqlEq(benchmarks[i].industry, s.industry)
        /\ benchmarks[i].location_type = "city"
        /\ SqlEq(benchmarks[i].location_value, s.city)
        /\ CacheFresh(benchmarks[i], t) }

(***************************************************************************)
(* calculateBenchmarks, corpus query (apify.js 213-223)                    *)
(***************************************************************************)
CorpusFilterAnyAge(p, s, t) ==
    /\ SqlEq(p.industry, s.industry)
    /\ \/ SqlEq(p.location_city, s.city)
       \/ SqlEq(p.location_state, s.state)
       \/ SqlEq(p.location_country, s.country)

CorpusFilter(p, s, t) ==
    /\ SqlEq(p.industry, s.industry)
    /\ \/ SqlEq(p.location_city, s.city)
       \/ SqlEq(p.location_state, s.state)
       \/ SqlEq(p.location_country, s.country)
    /\ p.last_scraped > t - CorpusHours

CorpusRows(s, t) == { p \in profiles : CorpusFilter(p, s, t) }

\* SELECT followers, engagement_rate, post_frequency, reel_percentage
Selected(p) ==
    [followers |-> p.followers, engagement_rate |-> p.engagement_rate,
     post_frequency |-> p.post_frequency, reel_percentage |-> p.reel_percentage]

(***************************************************************************)
(* calculateBenchmarks, aggregation (apify.js 231-239)                     *)
(***************************************************************************)
avgFollowers(d) == Rat(SumSeq(Column(d, "followers")), Len(d))

avgEngagement(d) == Rat(SumSeq(Column(d, "engagement_rate")), 100 * Len(d))

avgPostFreq(d) ==
    Rat(SumSeq([i \in DOMAIN d |-> OrZero(d[i].post_frequency)]), 100 * Len(d))

avgReels(d) == Rat(SumSeq([i \in DOMAIN d |-> d[i].reel_percentage]), Len(d))

followerDistribution(d) == Column(d, "followers")

engagementDistribution(d) == Column(d, "engagement_rate")

\* a DECIMAL(n,2) value of c cents as a number
Cents(c) == Rat(c, 100)

\* the object calculateBenchmarks returns (apify.js 267-278)
Computed(s, d) ==
    [industry |-> s.industry, location_type |-> "city", location_value |-> s.city,
     avg_followers |-> avgFollowers(d), avg_engagement |-> avgEngagement(d),
     avg_post_frequency |-> avgPostFreq(d), avg_reel_percentage |-> avgReels(d),
     follower_distribution |-> followerDistribution(d),
     engagement_distribution |-> engagementDistribution(d),
     sample_size |-> Len(d)]

StoredValuesDistinct(d, tieUp) ==
    [avg_followers |-> Cents(ToFixed2(avgFollowers(d)[1], avgFollowers(d)[2], tieUp)),
     avg_engagement |-> Cents(ToFixed2(avgEngagement(d)[1], avgEngagement(d)[2], tieUp)),
     avg_post_frequency |-> Cents(ToFixed2(avgPostFreq(d)[1], avgPostFreq(d)[2], tieUp)),
     avg_reel_percentage |-> Cents(ToFixed2(avgReels(d)[1], avgReels(d)[2], tieUp)),
     follower_distribution |-> followerDistribution(d),
     engagement_distribution |-> engagementDistribution(d),
     sample_size |-> Cardinality({ d[i].followers : i \in DOMAIN d })]

\* parameters $4..$10 of the INSERT (apify.js 259-265)
StoredValues(d, tieUp) ==
    [avg_followers |-> Cents(ToFixed2(avgFollowers(d)[1], avgFollowers(d)[2], tieUp)),
     avg_engagement |-> Cents(ToFixed2(avgEngagement(d)[1], avgEngagement(d)[2], tieUp)),
     avg_post_frequency |-> Cents(ToFixed2(avgPostFreq(d)[1], avgPostFreq(d)[2], tieUp)),
     avg_reel_percentage |-> Cents(ToFixed2(avgReels(d)[1], avgReels(d)[2], tieUp)),
     follower_distribution |-> followerDistribution(d),
     engagement_distribution |-> engagementDistribution(d),
     sample_size |-> Len(d)]

ValueColumns ==
    {"avg_followers", "avg_engagement", "avg_post_frequency", "avg_reel_percentage",
     "follower_distribution", "engagement_distribution", "sample_size"}

\* rows the ON CONFLICT (industry, location_type, location_value) clause hits:
\* a UNIQUE constraint treats NULLs as distinct (part_000 line 96)
ConflictRows(store, s) ==
    { i \in DOMAIN store :
        /\ SqlEq(store[i].industry, s.industry)
        /\ store[i].location_type = "city"
        /\ SqlEq(store[i].location_value, s.city) }

\* INSERT ... ON CONFLICT DO UPDATE (apify.js 242-265)
UpsertKeepStamp(store, s, d, t, tieUp) ==
    LET v == StoredValues(d, tieUp)
        hit == ConflictRows(store, s)
    IN  IF hit = {}
        THEN Append(store,
                 [industry |-> s.industry, location_type |-> "city",
                  location_value |-> s.city, avg_stories_per_day |-> Cents(0),
                  last_calculated |-> t, updated_at |-> t] @@ v)
        ELSE [i \in DOMAIN store |->
                 IF i \in hit
                 THEN [c \in DOMAIN store[i] |->
                          IF c \in ValueColumns THEN v[c] ELSE store[i][c]]
                 ELSE store[i]]

Upsert(store, s, d, t, tieUp) ==
    LET v == StoredValues(d, tieUp)
        hit == ConflictRows(store, s)
    IN  IF hit = {}
        THEN Append(store,
                 [industry |-> s.industry, location_type |-> "city",
                  location_value |-> s.city, avg_stories_per_day |-> Cents(0),
                  last_calculated |-> t, updated_at |-> t] @@ v)
        ELSE [i \in DOMAIN store |->
                 IF i \in hit
                 THEN [c \in DOMAIN store[i] |->
                          IF c \in ValueColumns THEN v[c]
                          ELSE IF c = "updated_at" THEN t
                          ELSE store[i][c]]
                 ELSE store[i]]

(***************************************************************************)
(* getGlobalBenchmarks (apify.js 289-302)                                  *)
(***************************************************************************)
Defaults(f, e, pf) ==
    [avg_followers |-> Rat(f, 1), avg_engagement |-> Rat(e, 10),
     avg_post_frequency |-> Rat(pf, 10)]

GlobalTable ==
    [fitness  |-> Defaults(15000, 35, 52),
     beauty   |-> Defaults(25000, 42, 75),
     health   |-> Defaults(18000, 38, 48),
     fashion  |-> Defaults(35000, 32, 92),
     food     |-> Defaults(20000, 45, 80),
     business |-> Defaults(12000, 25, 40),
     default  |-> Defaults(15000, 30, 50)]

\* property names every object literal inherits from Object.prototype
ObjectPrototypeKeys ==
    {"constructor", "toString", "toLocaleString", "valueOf", "hasOwnProperty",
     "isPrototypeOf", "propertyIsEnumerable", "__proto__"}

\* benchmarks[industry] || benchmarks['default']: a property read follows the
\* prototype chain, and what it finds there is truthy
getGlobalBenchmarks(industry) ==
    IF industry \in DOMAIN GlobalTable THEN GlobalTable[industry]
    ELSE IF industry \in ObjectPrototypeKeys THEN [inherited |-> industry]
    ELSE GlobalTable["default"]

(***************************************************************************)
(* calculatePercentile (apify.js 165-175).  The distribution argument is   *)
(* <<>> when absent (null/undefined) and <<d>> when it is the array d.     *)
(***************************************************************************)
RECURSIVE SortAsc(_)
\* distribution.sort((a, b) => a - b)
SortAsc(s) ==
    IF s = <<>> THEN <<>>
    ELSE LET m == CHOOSE i \in DOMAIN s : \A j \in DOMAIN s : s[i] <= s[j]
         IN  <<s[m]>> \o SortAsc([i \in 1..(Len(s) - 1) |-> IF i < m THEN s[i] ELSE s[i + 1]])

\* sorted.findIndex(v => v >= value), zero-based, -1 when there is none
findIndexTiesBelow(sorted, value) ==
    IF \E i \in DOMAIN sorted : sorted[i] > value
    THEN (CHOOSE i \in DOMAIN sorted :
              /\ sorted[i] > value
              /\ \A j \in DOMAIN sorted : sorted[j] > value => i <= j) - 1
    ELSE -1

findIndex(sorted, value) ==
    IF \E i \in DOMAIN sorted : sorted[i] >= value
    THEN (CHOOSE i \in DOMAIN sorted :
              /\ sorted[i] >= value
              /\ \A j \in DOMAIN sorted : sorted[j] >= value => i <= j) - 1
    ELSE -1

NeutralPercentile == 50

\* the quotients index / length, in lowest terms, for which the double
\* (index / length) * 100 lies just below an exact half (all there are for
\* length <= 400): (23 / 40) * 100 is 57.49999999999999
ShortOfHalf == { <<23, 40>>, <<29, 200>>, <<57, 200>>, <<113, 200>> }

\* Math.round((index / length) * 100)
RoundPercent(index, length) ==
    LET q == (index * 100) \div length
        r == (index * 100) % length
        short == \E f \in ShortOfHalf : index * f[2] = length * f[1]
    IN  IF 2 * r > length THEN q + 1
        ELSE IF 2 * r = length /\ ~short THEN q + 1
        ELSE q

calculatePercentileEmptyZero(value, distribution) ==
    IF distribution = <<>> \/ Len(distribution[1]) = 0 THEN 0
    ELSE LET sorted == SortAsc(distribution[1])
             index == findIndex(sorted, value)
         IN  IF index = -1 THEN 100
             ELSE RoundPercent(index, Len(sorted))

calculatePercentile(value, distribution) ==
    IF distribution = <<>> \/ Len(distribution[1]) = 0 THEN NeutralPercentile
    ELSE LET sorted == SortAsc(distribution[1])
             index == findIndex(sorted, value)
         IN  IF index = -1 THEN 100
             ELSE RoundPercent(index, Len(sorted))

(***************************************************************************)
(* calculateOverallScore (apify.js 392-407).  A JavaScript number is NaN   *)
(* or a rational; Infinity arises only under Math.min(100, .).             *)
(***************************************************************************)
NaN == [nan |-> TRUE]

Num(q) == [nan |-> FALSE, q |-> q]

RECURSIVE Gcd(_, _)
Gcd(a, b) == IF b = 0 THEN a ELSE Gcd(b, a % b)

\* the rational num/den in lowest terms
Lowest(num, den) == LET g == Gcd(num, den) IN Rat(num \div g, den \div g)

\* Math.min(100, (a / b) * 100) for a, b >= 0: 0/0 is NaN, x/0 is Infinity
ScoreComponentNoCap(a, b) ==
    IF b[1] = 0
    THEN (IF a[1] = 0 THEN NaN ELSE Num(Rat(100, 1)))
    ELSE Num(Lowest(100 * a[1] * b[2], a[2] * b[1]))

ScoreComponent(a, b) ==
    IF b[1] = 0
    THEN (IF a[1] = 0 THEN NaN ELSE Num(Rat(100, 1)))
    ELSE IF a[1] * b[2] >= b[1] * a[2] THEN Num(Rat(100, 1))
    ELSE Num(Lowest(100 * a[1] * b[2], a[2] * b[1]))

\* Math.min(100, Math.max(0, n))
Clamp(n) == IF n < 0 THEN 0 ELSE IF n > 100 THEN 100 ELSE n

calculateOverallScore(profile, bench) ==
    LET followerScore == ScoreComponent(profile.followers, bench.avg_followers)
        engagementScore == ScoreComponent(profile.engagement_rate, bench.avg_engagement)
        postScore == ScoreComponent(profile.post_frequency, bench.avg_post_frequency)
    IN  IF followerScore.nan \/ engagementScore.nan \/ postScore.nan
        THEN NaN
        ELSE LET f == followerScore.q
                 e == engagementScore.q
                 p == postScore.q
                 num == 3 * f[1] * e[2] * p[2] + 5 * e[1] * f[2] * p[2] + 2 * p[1] * f[2] * e[2]
                 den == 10 * f[2] * e[2] * p[2]
             IN  [nan |-> FALSE, value |-> Clamp(MathRound(num, den))]

(***************************************************************************)
(* The resolver as a state machine: one step per awaited query             *)
(***************************************************************************)
Init ==
    /\ now = StartClock
    /\ profiles \in SUBSET CandidateProfiles
    /\ benchmarks = <<>>
    /\ fpTieUp \in BOOLEAN
    /\ pc = [r \in Requests |-> "idle"]
    /\ seg = [r \in Requests |-> NoSegment]
    /\ data = [r \in Requests |-> <<>>]
    /\ result = [r \in Requests |-> NoResult]
    /\ reads = [r \in Requests |-> 0]
    /\ writes = [r \in Requests |-> 0]
    /\ calls = 0
    /\ analysis = NoAnalysis
    /\ arg = NoArg
    /\ ret = NoArg

InFlight == { r \in Requests : pc[r] # "idle" }

\* a caller (routes part_003 line 13, part_002 line 202) invokes getBenchmarks
CallGetBenchmarks(r, s) ==
    /\ pc[r] = "idle"
    /\ \A q \in Requests : q < r => pc[q] # "idle"
    /\ calls < MaxCalls
    /\ calls' = calls + 1
    /\ pc' = [pc EXCEPT ![r] = "cached"]
    /\ seg' = [seg EXCEPT ![r] = s]
    /\ data' = [data EXCEPT ![r] = <<>>]
    /\ result' = [result EXCEPT ![r] = NoResult]
    /\ reads' = [reads EXCEPT ![r] = 0]
    /\ writes' = [writes EXCEPT ![r] = 0]
    /\ UNCHANGED <<now, profiles, benchmarks, fpTieUp, arg, ret, analysis>>

\* getBenchmarks: the cached query and the branch on it (apify.js 183-199)
QueryCached(r) ==
    /\ pc[r] = "cached"
    /\ \/ /\ CachedRows(seg[r], now) # {}
          /\ \E i \in CachedRows(seg[r], now) :
                result' = [result EXCEPT ![r] = benchmarks[i]]
          /\ pc' = [pc EXCEPT ![r] = "done"]
       \/ /\ CachedRows(seg[r], now) = {}
          /\ pc' = [pc EXCEPT ![r] = "profiles"]
          /\ UNCHANGED result
    /\ UNCHANGED <<now, profiles, benchmarks, fpTieUp, seg, data, reads, writes, calls, arg, ret, analysis>>

\* calculateBenchmarks: the corpus query and the branch on it (apify.js 213-239)
QueryProfiles(r) ==
    /\ pc[r] = "profiles"
    /\ reads' = [reads EXCEPT ![r] = @ + 1]
    /\ \/ /\ CorpusRows(seg[r], now) = {}
          /\ result' = [result EXCEPT ![r] = getGlobalBenchmarks(seg[r].industry)]
          /\ pc' = [pc EXCEPT ![r] = "done"]
          /\ UNCHANGED data
       \/ /\ CorpusRows(seg[r], now) # {}
          /\ \E rows \in RowOrders(CorpusRows(seg[r], now)) :
                data' = [data EXCEPT ![r] = [i \in DOMAIN rows |-> Selected(rows[i])]]
          /\ pc' = [pc EXCEPT ![r] = "upsert"]
          /\ UNCHANGED result
    /\ UNCHANGED <<now, profiles, benchmarks, fpTieUp, seg, writes, calls, arg, ret, analysis>>

\* calculateBenchmarks: the upsert and the return (apify.js 242-278)
UpsertBenchmarks(r) ==
    /\ pc[r] = "upsert"
    /\ benchmarks' = Upsert(benchmarks, seg[r], data[r], now, fpTieUp)
    /\ writes' = [writes EXCEPT ![r] = @ + 1]
    /\ result' = [result EXCEPT ![r] = Computed(seg[r], data[r])]
    /\ pc' = [pc EXCEPT ![r] = "done"]
    /\ UNCHANGED <<now, profiles, fpTieUp, seg, data, reads, calls, arg, ret, analysis>>

\* the caller has consumed the baseline
ReturnBenchmarks(r) ==
    /\ pc[r] = "done"
    /\ pc' = [pc EXCEPT ![r] = "idle"]
    /\ seg' = [seg EXCEPT ![r] = NoSegment]
    /\ data' = [data EXCEPT ![r] = <<>>]
    /\ result' = [result EXCEPT ![r] = NoResult]
    /\ reads' = [reads EXCEPT ![r] = 0]
    /\ writes' = [writes EXCEPT ![r] = 0]
    /\ UNCHANGED <<now, profiles, benchmarks, fpTieUp, calls, arg, ret, analysis>>

MaxClock == StartClock + MaxTicks * 12

\* NOW() advances by half a day between requests: a request is short
\* against the clock's grain
Tick(d) ==
    /\ InFlight = {}
    /\ now + d <= MaxClock
    /\ now' = now + d
    /\ UNCHANGED <<profiles, benchmarks, fpTieUp, pc, seg, data, result, reads, writes, calls, arg, ret, analysis>>

Next ==
    \/ \E r \in Requests, s \in Segments : CallGetBenchmarks(r, s)
    \/ \E r \in Requests : QueryCached(r)
    \/ \E r \in Requests : QueryProfiles(r)
    \/ \E r \in Requests : UpsertBenchmarks(r)
    \/ \E r \in Requests : ReturnBenchmarks(r)
    \/ \E d \in TickHours : Tick(d)

Spec == Init /\ [][Next]_vars

(***************************************************************************)
(* The pure functions, applied to inputs drawn from bounded sets           *)
(***************************************************************************)
SysQuiet ==
    /\ now = StartClock
    /\ profiles = {}
    /\ benchmarks = <<>>
    /\ pc = [r \in Requests |-> "idle"]
    /\ seg = [r \in Requests |-> NoSegment]
    /\ data = [r \in Requests |-> <<>>]
    /\ result = [r \in Requests |-> NoResult]
    /\ reads = [r \in Requests |-> 0]
    /\ writes = [r \in Requests |-> 0]
    /\ calls = 0
    /\ analysis = NoAnalysis

SeqsUpTo(S, n) == UNION { [1..k -> S] : k \in 0..n }

PercentileSamples == {1, 2, 3}

PercentileValues == {0, 1, 2, 3, 4}

\* a distribution of 40 samples, 23 of them below 2
LongSample == [i \in 1..40 |-> IF i <= 23 THEN 1 ELSE 3]

PercentileArgs ==
    { [value |-> v, distribution |-> d] :
        v \in PercentileValues,
        d \in {<<>>, <<LongSample>>}
                 \cup { <<s>> : s \in SeqsUpTo(PercentileSamples, MaxSamples) } }

\* no percentile depends on fpTieUp
InitPercentile == SysQuiet /\ fpTieUp = TRUE /\ arg \in PercentileArgs /\ ret = NoArg

\* one call of calculatePercentile; sort() reorders the caller's array in place
CallCalculatePercentile ==
    /\ ret = NoArg
    /\ ret' = [value |-> calculatePercentile(arg.value, arg.distribution)]
    /\ arg' = [arg EXCEPT !.distribution =
                  IF @ = <<>> \/ Len(@[1]) = 0 THEN @ ELSE <<SortAsc(@[1])>>]
    /\ UNCHANGED sysvars

SpecPercentile == InitPercentile /\ [][CallCalculatePercentile]_vars

ScoreProfile(f, e, pf) ==
    [followers |-> f, engagement_rate |-> e, post_frequency |-> pf]

ScoreBaseline(af, ae, ap) ==
    [avg_followers |-> af, avg_engagement |-> ae, avg_post_frequency |-> ap]

\* the worked example of section 8
ScoreExample ==
    [profile |-> ScoreProfile(Rat(12543, 1), Rat(320, 100), Rat(420, 100)),
     benchmarks |-> ScoreBaseline(Rat(8500, 1), Rat(230, 100), Rat(520, 100))]

ScoreGrid == { Rat(k, 1) : k \in 0..MaxMetric }

ScoreArgs ==
    { [profile |-> ScoreProfile(f, e, pf), benchmarks |-> ScoreBaseline(af, ae, ap)] :
        f \in ScoreGrid, e \in ScoreGrid, pf \in ScoreGrid,
        af \in ScoreGrid, ae \in ScoreGrid, ap \in ScoreGrid }

InitScore ==
    SysQuiet /\ fpTieUp \in BOOLEAN /\ arg \in ScoreArgs \cup {ScoreExample} /\ ret = NoArg

\* one call of calculateOverallScore
CallCalculateOverallScore ==
    /\ ret = NoArg
    /\ ret' = calculateOverallScore(arg.profile, arg.benchmarks)
    /\ UNCHANGED <<arg, sysvars>>

SpecScore == InitScore /\ [][CallCalculateOverallScore]_vars

(***************************************************************************)
(* calculateRankings (apify.js 307-387).  node-pg hands an int8, the type  *)
(* of COUNT, to JavaScript as its decimal text; the fallbacks are       *)
(* numbers.  A JavaScript value here is a string holding the numeral of n  *)
(* or the number n.                                                        *)
(***************************************************************************)
JsString(n) == [kind |-> "string", n |-> n]

JsNumber(n) == [kind |-> "number", n |-> n]

\* x || y: a numeral is a non-empty string and truthy, the number 0 is falsy
OrElse(x, y) == IF x.kind = "string" \/ x.n # 0 THEN x ELSE y

parseInt(v) == v.n

CityFallback == 1000

StateFallback == 5000

NationalFallback == 50000

NotFoundMessage == "Profile not found in database"

\* SELECT followers, engagement_rate FROM profiles WHERE username = $1
SubjectRows(P, username) == { p \in P : SqlEq(p.username, username) }

\* followers > $3 OR (followers = $3 AND engagement_rate > $4)
DominatesOrTies(p, followers, engagement_rate) ==
    \/ p.followers > followers
    \/ p.followers = followers /\ p.engagement_rate >= engagement_rate

Dominates(p, followers, engagement_rate) ==
    \/ p.followers > followers
    \/ p.followers = followers /\ p.engagement_rate > engagement_rate

\* WHERE location_<scope> = $1 AND industry = $2
ScopeRows(P, column, value, industry) ==
    { p \in P : SqlEq(p[column], value) /\ SqlEq(p.industry, industry) }

RankQueryAnyIndustry(P, column, value, industry, followers, engagement_rate) ==
    JsString(Cardinality({ p \in P :
                              /\ SqlEq(p[column], value)
                              /\ Dominates(p, followers, engagement_rate) }) + 1)

\* SELECT COUNT + 1 as rank
RankQuery(P, column, value, industry, followers, engagement_rate) ==
    JsString(Cardinality({ p \in ScopeRows(P, column, value, industry) :
                              Dominates(p, followers, engagement_rate) }) + 1)

\* SELECT COUNT as total
TotalQuery(P, column, value, industry) ==
    JsString(Cardinality(ScopeRows(P, column, value, industry)))

\* the six counts and the object returned (apify.js 320-381)
Rankings(P, s, followers, engagement_rate) ==
    [city |->
        [rank |-> parseInt(RankQuery(P, "location_city", s.city, s.industry,
                                     followers, engagement_rate)),
         total |-> parseInt(OrElse(TotalQuery(P, "location_city", s.city, s.industry),
                                   JsNumber(CityFallback))),
         name |-> s.city],
     state |->
        [rank |-> parseInt(RankQuery(P, "location_state", s.state, s.industry,
                                     followers, engagement_rate)),
         total |-> parseInt(OrElse(TotalQuery(P, "location_state", s.state, s.industry),
                                   JsNumber(StateFallback))),
         name |-> s.state],
     national |->
        [rank |-> parseInt(RankQuery(P, "location_country", s.country, s.industry,
                                     followers, engagement_rate)),
         total |-> parseInt(OrElse(TotalQuery(P, "location_country", s.country, s.industry),
                                   JsNumber(NationalFallback))),
         country |-> s.country],
     queries |-> 7]

calculateRankingsNoThrow(P, username, s) ==
    IF SubjectRows(P, username) = {}
    THEN Rankings(P, s, 0, 0)
    ELSE LET subject == CHOOSE p \in SubjectRows(P, username) : TRUE
         IN  Rankings(P, s, subject.followers, subject.engagement_rate)

\* the result, or the error thrown, with the number of queries run
calculateRankings(P, username, s) ==
    IF SubjectRows(P, username) = {}
    THEN [error |-> NotFoundMessage, queries |-> 1]
    ELSE LET subject == CHOOSE p \in SubjectRows(P, username) : TRUE
         IN  Rankings(P, s, subject.followers, subject.engagement_rate)

(***************************************************************************)
(* calculateRankings applied to a stored corpus                            *)
(***************************************************************************)
RankProfiles ==
    CandidateProfiles \cup
    { Profile("d", "fitness", "Dallas", "TX", "US", 2, 2, <<5>>, 30, StartClock),
      Profile("e", "beauty", "Austin", "TX", "US", 3, 1, <<2>>, 50, StartClock) }

RankUsernames == { p.username : p \in RankProfiles } \cup {"ghost"}

RankArgs == { [username |-> u, segment |-> s] : u \in RankUsernames, s \in Segments }

\* the engine otherwise at rest; no rank depends on fpTieUp
InitRank ==
    /\ now = StartClock
    /\ profiles \in SUBSET RankProfiles
    /\ benchmarks = <<>>
    /\ fpTieUp = TRUE
    /\ pc = [r \in Requests |-> "idle"]
    /\ seg = [r \in Requests |-> NoSegment]
    /\ data = [r \in Requests |-> <<>>]
    /\ result = [r \in Requests |-> NoResult]
    /\ reads = [r \in Requests |-> 0]
    /\ writes = [r \in Requests |-> 0]
    /\ calls = 0
    /\ analysis = NoAnalysis
    /\ arg \in RankArgs
    /\ ret = NoArg

\* one call of calculateRankings
CallCalculateRankings ==
    /\ ret = NoArg
    /\ ret' = calculateRankings(profiles, arg.username, arg.segment)
    /\ UNCHANGED <<sysvars, arg>>

SpecRank == InitRank /\ [][CallCalculateRankings]_vars

(***************************************************************************)
(* generateInsights (part_002 282-342).  The profile is a row of profiles: *)
(* engagement_rate and post_frequency are DECIMAL text read by parseFloat. *)
(* The baseline is a row of benchmarks (its DECIMAL averages are text,     *)
(* which multiplies as a number but has no toFixed), or the object         *)
(* calculateBenchmarks or getGlobalBenchmarks built (numbers).             *)
(* The products a * 0.7 and a * 1.3 are doubles: where x is exactly the    *)
(* product the comparison may still hold.  The two tables list the pairs   *)
(* <<x, a>> of hundredths where it does, for the averages 0.70, 1.00, 2.30,*)
(* 5.00, 5.20, 8.30 and the seven rows of the defaults table.              *)
(***************************************************************************)
\* x = 0.7 a exactly, yet x < a * 0.7 in doubles: 8.3 * 0.7 is 5.8100000000000005
BelowAtSeventy == { <<581, 830>> }

\* x = 1.3 a exactly, yet x > a * 1.3 in doubles: 2.3 * 1.3 is 2.9899999999999998
AboveAtThirteen == { <<91, 70>>, <<299, 230>>, <<494, 380>> }

\* x < a * 0.7, x in hundredths and a the rational average
BelowSeventy(x, a) ==
    \/ x * a[2] * 10 < a[1] * 7 * 100
    \/ \E w \in BelowAtSeventy : w[1] = x /\ RatEq(a, Rat(w[2], 100))

\* x > a * 1.3
AboveThirteen(x, a) ==
    \/ x * a[2] * 10 > a[1] * 13 * 100
    \/ \E w \in AboveAtThirteen : w[1] = x /\ RatEq(a, Rat(w[2], 100))

\* a row of benchmarks, as against an object built in memory
FromTable(bench) == "updated_at" \in DOMAIN bench

\* an average that is missing (undefined) compares false with everything
HasAverage(bench, c) == c \in DOMAIN bench

ReelThreshold == 30

TopScore == 85

LowScore == 60

Insight(type, category) == [type |-> type, category |-> category]

\* what each of the four rules pushes
EngagementInsight(profile, bench) ==
    IF ~HasAverage(bench, "avg_engagement") THEN <<>>
    ELSE IF BelowSeventy(profile.engagement_rate, bench.avg_engagement)
         THEN <<Insight("warning", "engagement")>>
    ELSE IF AboveThirteen(profile.engagement_rate, bench.avg_engagement)
         THEN <<Insight("success", "engagement")>>
    ELSE <<>>

FrequencyInsight(profile, bench) ==
    IF ~HasAverage(bench, "avg_post_frequency") THEN <<>>
    ELSE IF BelowSeventy(OrZero(profile.post_frequency), bench.avg_post_frequency)
         THEN <<Insight("warning", "frequency")>>
    ELSE <<>>

\* null < 30 holds: null compares as 0
ContentInsight(profile) ==
    IF OrZero(profile.reel_percentage) < ReelThreshold
    THEN <<Insight("info", "content")>>
    ELSE <<>>

\* NaN >= 85 and NaN < 60 are both false
OverallInsight(score) ==
    IF score.nan THEN <<>>
    ELSE IF score.value >= TopScore THEN <<Insight("success", "overall")>>
    ELSE IF score.value < LowScore THEN <<Insight("warning", "overall")>>
    ELSE <<>>

TypeError == "TypeError"

generateInsightsReordered(profile, bench, score) ==
    IF FrequencyInsight(profile, bench) # <<>> /\ FromTable(bench)
    THEN [error |-> TypeError]
    ELSE [insights |-> EngagementInsight(profile, bench) \o ContentInsight(profile)
                        \o FrequencyInsight(profile, bench) \o OverallInsight(score)]

\* the list returned; the frequency message calls avg_post_frequency.toFixed,
\* which a DECIMAL text does not have
generateInsights(profile, bench, score) ==
    IF FrequencyInsight(profile, bench) # <<>> /\ FromTable(bench)
    THEN [error |-> TypeError]
    ELSE [insights |-> EngagementInsight(profile, bench) \o FrequencyInsight(profile, bench)
                        \o ContentInsight(profile) \o OverallInsight(score)]

(***************************************************************************)
(* generateInsights applied to inputs drawn from bounded sets              *)
(***************************************************************************)
InsightProfile(e, pf, reel) ==
    [engagement_rate |-> e, post_frequency |-> pf, reel_percentage |-> reel]

\* a computed baseline, and the same averages as a row of benchmarks
InsightBaseline(ae, ap, stored) ==
    IF stored
    THEN [avg_engagement |-> ae, avg_post_frequency |-> ap, updated_at |-> StartClock]
    ELSE [avg_engagement |-> ae, avg_post_frequency |-> ap]

InsightRates == {69, 70, 71, 130, 131, 161, 299, 300, 581, 1079}

InsightFrequencies == {<<>>, <<350>>, <<363>>, <<364>>, <<520>>, <<581>>}

InsightReels == {<<>>, <<29>>, <<30>>}

InsightScores == {NaN} \cup { [nan |-> FALSE, value |-> v] : v \in {59, 60, 84, 85} }

InsightArgs ==
    { [profile |-> InsightProfile(e, pf, reel),
       benchmarks |-> InsightBaseline(Rat(ae, 100), Rat(ap, 100), stored),
       score |-> sc] :
        e \in InsightRates, pf \in InsightFrequencies, reel \in InsightReels,
        ae \in {100, 230, 830}, ap \in {500, 520, 830}, stored \in BOOLEAN,
        sc \in InsightScores }

InitInsights == SysQuiet /\ fpTieUp = TRUE /\ arg \in InsightArgs /\ ret = NoArg

\* one call of generateInsights
CallGenerateInsights ==
    /\ ret = NoArg
    /\ ret' = generateInsights(arg.profile, arg.benchmarks, arg.score)
    /\ UNCHANGED <<sysvars, arg>>

SpecInsights == InitInsights /\ [][CallGenerateInsights]_vars

(***************************************************************************)
(* POST /api/analyze (part_002 122-277).  One request at a time; its call  *)
(* of getBenchmarks runs as request 1 of the resolver.  The response keeps *)
(* the fields computed by the engine (score, sample size, rankings,        *)
(* insights, scrapedAt); the echoed profile columns and the formatted      *)
(* averages are left out.                                                  *)
(***************************************************************************)
ProfileFreshDays == 7

DefaultSampleSize == 100

BadRequest == 400

ServerError == 500

\* last_scraped > NOW() - INTERVAL '7 days'
ProfileFreshAlways(p, t) == TRUE

ProfileFresh(p, t) == p.last_scraped > t - ProfileFreshDays * 24

\* SELECT * FROM profiles WHERE username = $1 AND last_scraped > ...
ExistingProfile(P, username, t) ==
    { p \in P : SqlEq(p.username, username) /\ ProfileFresh(p, t) }

Body(u, ind, city, st, ctry) ==
    [username |-> u, industry |-> ind, locationCity |-> city,
     locationState |-> st, locationCountry |-> ctry]

BodySegment(body) ==
    Segment(body.industry, body.locationCity, body.locationState, body.locationCountry)

\* the row INSERT ... ON CONFLICT (username) DO UPDATE writes (part_002 154-196)
SavedRow(body, scraped, t, count) ==
    Profile(body.username, body.industry, body.locationCity, body.locationState,
            body.locationCountry, scraped.followers, scraped.engagement_rate,
            <<scraped.post_frequency>>, scraped.reel_percentage, t)
        @@ [scrape_count |-> count]

SaveProfileKeepCount(P, body, scraped, t) ==
    LET old == { p \in P : SqlEq(p.username, body.username) }
    IN  IF old = {}
        THEN P \cup {SavedRow(body, scraped, t, 1)}
        ELSE (P \ old) \cup { SavedRow(body, scraped, t, p.scrape_count) : p \in old }

SaveProfile(P, body, scraped, t) ==
    LET old == { p \in P : SqlEq(p.username, body.username) }
    IN  IF old = {}
        THEN P \cup {SavedRow(body, scraped, t, 1)}
        ELSE (P \ old) \cup { SavedRow(body, scraped, t, p.scrape_count + 1) : p \in old }

\* benchmarks.follower_distribution || []
DistributionOrEmpty(bench, c) == IF c \in DOMAIN bench THEN <<bench[c]>> ELSE << <<>> >>

\* benchmarks.sample_size || 100
SampleSizeOrDefault(bench) ==
    IF "sample_size" \in DOMAIN bench /\ bench.sample_size # 0
    THEN bench.sample_size
    ELSE DefaultSampleSize

\* calculateOverallScore(profile, benchmarks) on a row of profiles: a null
\* post_frequency divides as 0, a missing average makes the score NaN
RowScore(p, bench) ==
    IF "avg_followers" \notin DOMAIN bench THEN NaN
    ELSE calculateOverallScore(
             ScoreProfile(Rat(p.followers, 1), Cents(p.engagement_rate),
                          Cents(OrZero(p.post_frequency))),
             bench)

RowInsights(p, bench, score) ==
    generateInsights(
        InsightProfile(p.engagement_rate, p.post_frequency, <<p.reel_percentage>>),
        bench, score)

\* part_002 204-262 and the catch 270-276
Response(P, body, p, bench) ==
    LET rankings == calculateRankings(P, body.username, BodySegment(body))
        score == RowScore(p, bench)
        insights == RowInsights(p, bench, score)
    IN  IF "error" \in DOMAIN rankings
        THEN [status |-> ServerError, error |-> rankings.error]
        ELSE IF "error" \in DOMAIN insights
        THEN [status |-> ServerError, error |-> insights.error]
        ELSE [status |-> 200,
              score |-> [overall |-> score,
                         followerPercentile |->
                             calculatePercentile(p.followers,
                                 DistributionOrEmpty(bench, "follower_distribution")),
                         engagementPercentile |->
                             calculatePercentile(p.engagement_rate,
                                 DistributionOrEmpty(bench, "engagement_distribution"))],
              benchmarks |-> [sampleSize |-> SampleSizeOrDefault(bench)],
              rankings |-> rankings,
              insights |-> insights.insights,
              scrapedAt |-> p.last_scraped]

\* profiles stored before the first request: b scraped now, w 6.5 days ago
AnalyzeProfiles ==
    { Profile("b", "fitness", "Dallas", "TX", "US", 2, 2, <<3>>, 25, StartClock)
          @@ [scrape_count |-> 1],
      Profile("w", "fitness", "Austin", "TX", "US", 3, 299, <<400>>, 30,
              StartClock - ProfileFreshDays * 24 + 12) @@ [scrape_count |-> 2] }

\* what the scraper returns: an account without posts, and an active one
ScrapedData ==
    { [followers |-> 0, engagement_rate |-> 0, post_frequency |-> 0, reel_percentage |-> 0],
      [followers |-> 3, engagement_rate |-> 320, post_frequency |-> 420,
       reel_percentage |-> 35] }

Bodies ==
    { Body(u, s.industry, s.city, s.state, s.country) :
        u \in {"b", "w", "n"},
        s \in { Segment("fitness", "Austin", "TX", "US"),
                Segment("fitness", NULL, NULL, NULL),
                Segment("kayaking", "Austin", NULL, NULL) } }
    \cup { Body("n", NULL, "Austin", "TX", "US") }

InitAnalyze ==
    /\ now = StartClock
    /\ profiles \in SUBSET AnalyzeProfiles
    /\ benchmarks = <<>>
    /\ fpTieUp \in BOOLEAN
    /\ pc = [r \in Requests |-> "idle"]
    /\ seg = [r \in Requests |-> NoSegment]
    /\ data = [r \in Requests |-> <<>>]
    /\ result = [r \in Requests |-> NoResult]
    /\ reads = [r \in Requests |-> 0]
    /\ writes = [r \in Requests |-> 0]
    /\ calls = 0
    /\ analysis = NoAnalysis
    /\ arg = NoArg
    /\ ret = NoArg

\* the request arrives and is validated (part_002 124-131)
AnalyzeStart(body) ==
    /\ analysis.pc = "idle"
    /\ calls < MaxCalls
    /\ arg' = body
    /\ IF body.username = NULL \/ body.industry = NULL
       THEN /\ ret' = [status |-> BadRequest,
                        error |-> "Missing required fields: username, industry"]
            /\ analysis' = NoAnalysis
       ELSE /\ ret' = NoArg
            /\ analysis' = [pc |-> "lookup", profile |-> <<>>, scrapes |-> 0]
    /\ UNCHANGED <<now, profiles, benchmarks, fpTieUp, pc, seg, data, result, reads,
                   writes, calls>>

\* the 7-day profile cache (part_002 135-148)
AnalyzeLookup ==
    /\ analysis.pc = "lookup"
    /\ IF ExistingProfile(profiles, arg.username, now) # {}
       THEN \E p \in ExistingProfile(profiles, arg.username, now) :
                analysis' = [analysis EXCEPT !.pc = "benchmarks", !.profile = <<p>>]
       ELSE analysis' = [analysis EXCEPT !.pc = "scrape"]
    /\ UNCHANGED <<now, profiles, benchmarks, fpTieUp, pc, seg, data, result, reads,
                   writes, calls, arg, ret>>

\* the scraper is called; its profile is saved, or its error answered
\* (part_002 149-199, 270-276)
AnalyzeScrape ==
    /\ analysis.pc = "scrape"
    /\ \/ \E scraped \in ScrapedData :
             /\ profiles' = SaveProfile(profiles, arg, scraped, now)
             /\ analysis' = [pc |-> "benchmarks",
                             profile |-> <<CHOOSE p \in profiles' : p.username = arg.username>>,
                             scrapes |-> analysis.scrapes + 1]
             /\ UNCHANGED ret
       \/ /\ ret' = [status |-> ServerError, error |-> "Failed to scrape Instagram profile"]
          /\ analysis' = [pc |-> "idle", profile |-> <<>>, scrapes |-> analysis.scrapes + 1]
          /\ UNCHANGED profiles
    /\ UNCHANGED <<now, benchmarks, fpTieUp, pc, seg, data, result, reads, writes, calls, arg>>

\* getBenchmarks is called (part_002 202)
AnalyzeGetBenchmarks ==
    /\ analysis.pc = "benchmarks"
    /\ pc[1] = "idle"
    /\ analysis' = [analysis EXCEPT !.pc = "resolving"]
    /\ calls' = calls + 1
    /\ pc' = [pc EXCEPT ![1] = "cached"]
    /\ seg' = [seg EXCEPT ![1] = BodySegment(arg)]
    /\ UNCHANGED <<now, profiles, benchmarks, fpTieUp, data, result, reads, writes, arg, ret>>

AnalyzeRespondStoring ==
    /\ analysis.pc = "resolving"
    /\ pc[1] = "done"
    /\ ret' = Response(profiles, arg, analysis.profile[1], result[1])
    /\ benchmarks' = IF data[1] # <<>>
                     THEN Upsert(benchmarks, seg[1], data[1], now + 1, fpTieUp)
                     ELSE benchmarks
    /\ analysis' = [analysis EXCEPT !.pc = "idle"]
    /\ pc' = [pc EXCEPT ![1] = "idle"]
    /\ seg' = [seg EXCEPT ![1] = NoSegment]
    /\ data' = [data EXCEPT ![1] = <<>>]
    /\ result' = [result EXCEPT ![1] = NoResult]
    /\ reads' = [reads EXCEPT ![1] = 0]
    /\ writes' = [writes EXCEPT ![1] = 0]
    /\ UNCHANGED <<now, profiles, fpTieUp, calls, arg>>

\* rankings, percentiles, score, insights and the response (part_002 204-268)
AnalyzeRespond ==
    /\ analysis.pc = "resolving"
    /\ pc[1] = "done"
    /\ ret' = Response(profiles, arg, analysis.profile[1], result[1])
    /\ analysis' = [analysis EXCEPT !.pc = "idle"]
    /\ pc' = [pc EXCEPT ![1] = "idle"]
    /\ seg' = [seg EXCEPT ![1] = NoSegment]
    /\ data' = [data EXCEPT ![1] = <<>>]
    /\ result' = [result EXCEPT ![1] = NoResult]
    /\ reads' = [reads EXCEPT ![1] = 0]
    /\ writes' = [writes EXCEPT ![1] = 0]
    /\ UNCHANGED <<now, profiles, benchmarks, fpTieUp, calls, arg>>

\* the clock advances between requests
AnalyzeTick ==
    /\ analysis.pc = "idle"
    /\ \E d \in TickHours : Tick(d)

NextAnalyze ==
    \/ \E body \in Bodies : AnalyzeStart(body)
    \/ AnalyzeLookup
    \/ AnalyzeScrape
    \/ AnalyzeGetBenchmarks
    \/ QueryCached(1)
    \/ QueryProfiles(1)
    \/ UpsertBenchmarks(1)
    \/ AnalyzeRespond
    \/ AnalyzeTick

SpecAnalyze == InitAnalyze /\ [][NextAnalyze]_vars

(***************************************************************************)
(* Vocabulary of the properties                                            *)
(***************************************************************************)
\* rows stored under the key (industry, 'city', city), the city taken as a
\* plain value (a NULL city is a key like any other)
KeyRows(store, s) ==
    { i \in DOMAIN store :
        /\ store[i].industry = s.industry
        /\ store[i].location_type = "city"
        /\ store[i].location_value = s.city }

\* the peer corpus of a segment as section 4.2 step 2 states it; a missing
\* location field matches nothing
PeerCorpus(s) ==
    { p \in profiles :
        /\ SqlEq(p.industry, s.industry)
        /\ \/ SqlEq(p.location_city, s.city)
           \/ SqlEq(p.location_state, s.state)
           \/ SqlEq(p.location_country, s.country)
        /\ now - p.last_scraped < CorpusDays * 24 }

RECURSIVE SetSum(_, _)
SetSum(S, c) ==
    IF S = {} THEN 0
    ELSE LET x == CHOOSE y \in S : TRUE
         IN  (IF c = "post_frequency" THEN OrZero(x[c]) ELSE x[c]) + SetSum(S \ {x}, c)

\* the two sequences hold the same samples, each as often
SameBag(s1, s2) ==
    /\ Len(s1) = Len(s2)
    /\ \E f \in RowOrders(DOMAIN s1) : \A i \in DOMAIN s1 : s1[i] = s2[f[i]]

\* a is the two-decimal number nearest to b
Nearest2(a, b) ==
    LET diff == a[1] * b[2] - b[1] * a[2]
    IN  /\ a[2] = 100
        /\ 200 * (IF diff < 0 THEN -diff ELSE diff) <= a[2] * b[2]

Averages == {"avg_followers", "avg_engagement", "avg_post_frequency", "avg_reel_percentage"}

\* the means of the peer corpus F
MeanOf(F, c) ==
    CASE c = "avg_followers" -> Rat(SetSum(F, "followers"), Cardinality(F))
      [] c = "avg_engagement" -> Rat(SetSum(F, "engagement_rate"), 100 * Cardinality(F))
      [] c = "avg_post_frequency" -> Rat(SetSum(F, "post_frequency"), 100 * Cardinality(F))
      [] c = "avg_reel_percentage" -> Rat(SetSum(F, "reel_percentage"), Cardinality(F))

\* row w carries the baseline b: the same distributions and sample size, and
\* b's averages exactly (exact) or rounded to two decimals
Carries(w, b, exact) ==
    /\ w.follower_distribution = b.follower_distribution
    /\ w.engagement_distribution = b.engagement_distribution
    /\ w.sample_size = b.sample_size
    /\ \A c \in Averages :
          IF exact THEN RatEq(w[c], b[c]) ELSE Nearest2(w[c], b[c])

\* rows w and v hold the same averages, samples and sample size
SameValues(w, v) ==
    /\ \A c \in Averages : RatEq(w[c], v[c])
    /\ SameBag(w.follower_distribution, v.follower_distribution)
    /\ SameBag(w.engagement_distribution, v.engagement_distribution)
    /\ w.sample_size = v.sample_size

(***************************************************************************)
(* C1: a fresh stored baseline is served as it is, without a corpus read   *)
(* or a store write; a baseline 24 hours old or older is never served.     *)
(***************************************************************************)
FreshFor(s) ==
    { i \in KeyRows(benchmarks, s) : now - benchmarks[i].updated_at < FreshHours }

\* C1: when a baseline stored for the key is less than 24 hours old, getBenchmarks
\* returns that row unchanged with no corpus read and no store write, and no
\* row that is 24 hours old or older is ever returned.
C1_CacheHit ==
    [][\A r \in Requests :
        /\ (pc[r] = "cached" /\ pc'[r] # "cached" /\ FreshFor(seg[r]) # {}) =>
              /\ pc'[r] = "done"
              /\ \E i \in FreshFor(seg[r]) : result'[r] = benchmarks[i]
              /\ reads'[r] = 0
              /\ writes'[r] = 0
              /\ benchmarks' = benchmarks
        /\ (pc'[r] = "done" /\ "updated_at" \in DOMAIN result'[r]) =>
              /\ now' - result'[r].updated_at < FreshHours
              /\ reads'[r] = 0
              /\ writes'[r] = 0]_vars

\* C1 for the segments that name a city: the same, and a call that finds no
\* fresh row for the key goes on to the corpus.
C1_CityCacheHit ==
    [][\A r \in Requests :
        /\ (pc[r] = "cached" /\ pc'[r] # "cached" /\ seg[r].city # NULL) =>
              IF FreshFor(seg[r]) # {}
              THEN /\ pc'[r] = "done"
                   /\ \E i \in FreshFor(seg[r]) : result'[r] = benchmarks[i]
                   /\ reads'[r] = 0
                   /\ writes'[r] = 0
                   /\ benchmarks' = benchmarks
              ELSE pc'[r] = "profiles" /\ result'[r] = NoResult
        /\ (pc'[r] = "done" /\ "updated_at" \in DOMAIN result'[r]) =>
              /\ now' - result'[r].updated_at < FreshHours
              /\ reads'[r] = 0
              /\ writes'[r] = 0]_vars

C1_Witness ==
    \E r \in Requests :
        /\ pc[r] = "done"
        /\ "updated_at" \in DOMAIN result[r]
        /\ reads[r] = 0
        /\ writes[r] = 0
        /\ now > result[r].updated_at

(***************************************************************************)
(* C2: what a recomputation over a non-empty corpus returns and stores     *)
(***************************************************************************)
Recomputed(r, exact) ==
    (pc[r] = "upsert" /\ pc'[r] # "upsert") =>
        LET F == PeerCorpus(seg[r])
            b == result'[r]
        IN  /\ F # {}
            /\ \E rows \in RowOrders(F) :
                  /\ b.follower_distribution = Column(rows, "followers")
                  /\ b.engagement_distribution = Column(rows, "engagement_rate")
            /\ b.sample_size = Cardinality(F)
            /\ \A c \in Averages : RatEq(b[c], MeanOf(F, c))
            /\ \E i \in KeyRows(benchmarks', seg[r]) : Carries(benchmarks'[i], b, exact)

\* C2 as stated: the returned and the upserted baseline both hold the exact
\* arithmetic means of the filtered corpus.
C2_Original == [][\A r \in Requests : Recomputed(r, TRUE)]_vars

\* C2 as amended: the corpus is exactly the profiles of the industry matching
\* city, state or country and scraped within 30 days; the returned baseline
\* holds its exact means, its raw values and its size, and the upserted row
\* holds the same with each mean rounded to two decimals.
C2_Aggregates == [][\A r \in Requests : Recomputed(r, FALSE)]_vars

\* a recomputation over two peers that left out a profile scraped 30 days ago
C2_Witness ==
    \E r \in Requests :
        /\ pc[r] = "done"
        /\ writes[r] = 1
        /\ result[r].sample_size = 2
        /\ \E p \in profiles :
              /\ p.industry = seg[r].industry
              /\ p.location_city = seg[r].city
              /\ now - p.last_scraped = CorpusDays * 24

(***************************************************************************)
(* C3: the degraded baseline                                               *)
(***************************************************************************)
NamedIndustries == {"fitness", "beauty", "health", "fashion", "food", "business"}

DefaultsRow(industry) ==
    IF industry \in NamedIndustries THEN GlobalTable[industry] ELSE GlobalTable["default"]

\* C3: on an empty filtered corpus getBenchmarks returns the defaults row of
\* the industry (the default row for any other), with sampleSize = 0 and no
\* distributions, and writes nothing to the store.
C3_Degraded ==
    [][\A r \in Requests :
        (pc[r] = "profiles" /\ pc'[r] # "profiles" /\ PeerCorpus(seg[r]) = {}) =>
            /\ pc'[r] = "done"
            /\ benchmarks' = benchmarks
            /\ writes'[r] = 0
            /\ {"avg_followers", "avg_engagement", "avg_post_frequency"} \subseteq DOMAIN result'[r]
            /\ \A c \in {"avg_followers", "avg_engagement", "avg_post_frequency"} :
                  RatEq(result'[r][c], DefaultsRow(seg[r].industry)[c])
            /\ "follower_distribution" \notin DOMAIN result'[r]
            /\ "engagement_distribution" \notin DOMAIN result'[r]
            /\ "sample_size" \in DOMAIN result'[r]
            /\ result'[r].sample_size = 0]_vars

(***************************************************************************)
(* C4, C5: recomputing twice, one after the other or concurrently          *)
(***************************************************************************)
\* C4: an upsert that follows an earlier upsert of the same values for the
\* same key leaves those values as they were and a single row for the key.
C4_Idempotent ==
    [][\A r \in Requests :
        (/\ pc[r] = "upsert" /\ pc'[r] # "upsert"
         /\ \E i \in KeyRows(benchmarks, seg[r]) :
               SameValues(benchmarks[i], StoredValues(data[r], fpTieUp))) =>
            /\ Cardinality(KeyRows(benchmarks', seg[r])) = 1
            /\ \A i \in KeyRows(benchmarks', seg[r]) :
                  SameValues(benchmarks'[i], StoredValues(data[r], fpTieUp))]_vars

\* C5: when two requests for the same segment have both missed the cache,
\* read the same corpus and upserted, the store holds exactly one row for the
\* key, with the values computed from that corpus.
C5_Concurrent ==
    \A r, q \in Requests :
        (/\ r # q
         /\ pc[r] = "done" /\ pc[q] = "done"
         /\ writes[r] = 1 /\ writes[q] = 1
         /\ seg[r] = seg[q]) =>
            /\ Cardinality(KeyRows(benchmarks, seg[r])) = 1
            /\ \A i \in KeyRows(benchmarks, seg[r]) :
                  SameValues(benchmarks[i], StoredValues(data[r], fpTieUp))

(***************************************************************************)
(* C6: lifecycle of a stored baseline                                      *)
(***************************************************************************)
NeverDeleted ==
    /\ Len(benchmarks') >= Len(benchmarks)
    /\ \A i \in DOMAIN benchmarks :
          /\ benchmarks'[i].industry = benchmarks[i].industry
          /\ benchmarks'[i].location_type = benchmarks[i].location_type
          /\ benchmarks'[i].location_value = benchmarks[i].location_value

\* C6 as stated: every getBenchmarks call that found the baseline absent or
\* stale returns with a fresh row stored for the key.
C6_Original ==
    [][/\ NeverDeleted
       /\ \A r \in Requests :
            (pc[r] \in {"profiles", "upsert"} /\ pc'[r] = "done") =>
                \E i \in KeyRows(benchmarks', seg[r]) :
                    /\ benchmarks'[i].updated_at = now'
                    /\ now' - benchmarks'[i].updated_at < FreshHours]_vars

\* C6 as amended: a call that found the baseline absent or stale and the
\* filtered corpus non-empty goes on to the upsert, and when it returns the
\* row for the key carries the newly computed values (means rounded to two
\* decimals) with updatedAt = now; no step deletes a row.
C6_Lifecycle ==
    [][/\ NeverDeleted
       /\ \A r \in Requests :
            /\ (pc[r] = "profiles" /\ pc'[r] # "profiles" /\ PeerCorpus(seg[r]) # {}) =>
                  pc'[r] = "upsert"
            /\ (pc[r] = "upsert" /\ pc'[r] # "upsert") =>
                  /\ pc'[r] = "done"
                  /\ \E i \in KeyRows(benchmarks', seg[r]) :
                        /\ benchmarks'[i].updated_at = now'
                        /\ now' - benchmarks'[i].updated_at < FreshHours
                        /\ Carries(benchmarks'[i], result'[r], FALSE)]_vars

\* a stale row has been refreshed
C6_Witness ==
    \E r \in Requests :
        /\ pc[r] = "done"
        /\ writes[r] = 1
        /\ \E i \in KeyRows(benchmarks, seg[r]) :
              /\ benchmarks[i].updated_at = now
              /\ benchmarks[i].last_calculated < now

(***************************************************************************)
(* C7, C8: calculatePercentile                                             *)
(***************************************************************************)
RECURSIVE Reverse(_)
Reverse(s) == IF s = <<>> THEN <<>> ELSE Append(Reverse(Tail(s)), Head(s))

Called == ret = NoArg /\ ret' # NoArg

\* C7 as stated: on a non-empty distribution d the result is 100 * k / |d|
\* rounded half up, k the number of samples strictly below the value.
C7_Original ==
    [][(Called /\ arg.distribution # <<>> /\ arg.distribution # << <<>> >>) =>
        LET d == arg.distribution[1]
            n == Len(d)
            k == Cardinality({ i \in 1..n : d[i] < arg.value })
        IN  ret'.value = (200 * k + n) \div (2 * n)]_vars

\* C7 as amended: on a non-empty distribution d the result is 100 * k / |d|
\* rounded to a nearest integer (a half goes up, or down where the double
\* falls short of it), k the number of samples strictly below the value; it
\* is 100 when the value exceeds every sample, 0 when no sample is below it,
\* always within 0..100, and the same for d in another order.
C7_Percentile ==
    [][(Called /\ arg.distribution # <<>> /\ arg.distribution # << <<>> >>) =>
        LET d == arg.distribution[1]
            n == Len(d)
            k == Cardinality({ i \in 1..n : d[i] < arg.value })
            p == ret'.value
        IN  /\ p \in 0..100
            /\ 2 * p * n <= 200 * k + n
            /\ 200 * k - n <= 2 * p * n
            /\ (2 * p * n # 200 * k - n) => p = (200 * k + n) \div (2 * n)
            /\ (\A i \in 1..n : d[i] < arg.value) => p = 100
            /\ (\A i \in 1..n : d[i] >= arg.value) => p = 0
            /\ calculatePercentile(arg.value, <<Reverse(d)>>) = p]_vars

\* samples equal to the value counted as above it: 23 of 40 samples lie
\* below 2, and the half 57.5 came out as 57
C7_Witness ==
    /\ ret # NoArg
    /\ arg.value = 2
    /\ arg.distribution # <<>>
    /\ Len(arg.distribution[1]) = 40
    /\ ret.value = 57

\* C8: with an empty or absent distribution the result is 50 for every value.
C8_EmptyNeutral ==
    [][(Called /\ (arg.distribution = <<>> \/ arg.distribution = << <<>> >>)) =>
        ret'.value = 50]_vars

C8_Witness ==
    /\ ret # NoArg
    /\ arg.distribution = <<>>
    /\ arg.value = 4
    /\ ret.value = 50

(***************************************************************************)
(* C9, C10: calculateOverallScore                                          *)
(***************************************************************************)
\* C9: the score of non-negative finite inputs is an integer within 0..100,
\* zero averages included.
C9_ScoreInRange ==
    ret # NoArg => (~ret.nan /\ ret.value \in 0..100)

\* the share x / a of an average a > 0, capped at 1
CappedShare(x, a) ==
    IF x[1] * a[2] >= a[1] * x[2] THEN Rat(1, 1) ELSE Rat(x[1] * a[2], x[2] * a[1])

GuardedShare(x, a) == IF a[1] = 0 THEN Rat(0, 1) ELSE CappedShare(x, a)

\* C11: when a baseline average is zero its score component counts as 0, and
\* calculateOverallScore never returns a non-numeric result.
C11_ZeroAverage ==
    ret # NoArg =>
        LET f == GuardedShare(arg.profile.followers, arg.benchmarks.avg_followers)
            e == GuardedShare(arg.profile.engagement_rate, arg.benchmarks.avg_engagement)
            p == GuardedShare(arg.profile.post_frequency, arg.benchmarks.avg_post_frequency)
            num == 10 * (3 * f[1] * e[2] * p[2] + 5 * e[1] * f[2] * p[2] + 2 * p[1] * f[2] * e[2])
            den == f[2] * e[2] * p[2]
        IN  /\ ~ret.nan
            /\ 2 * ret.value * den <= 2 * num + den
            /\ 2 * num - den <= 2 * ret.value * den

(***************************************************************************)
(* C12, C13, C14: calculateRankings                                        *)
(***************************************************************************)
Scopes == {"city", "state", "national"}

ScopeColumn(scope) ==
    CASE scope = "city" -> "location_city"
      [] scope = "state" -> "location_state"
      [] scope = "national" -> "location_country"

ScopeValue(s, scope) ==
    CASE scope = "city" -> s.city
      [] scope = "state" -> s.state
      [] scope = "national" -> s.country

\* the stored profiles of the industry whose scope column holds the value
InScope(s, scope) ==
    { p \in profiles :
        /\ p.industry # NULL /\ p.industry = s.industry
        /\ p[ScopeColumn(scope)] # NULL /\ p[ScopeColumn(scope)] = ScopeValue(s, scope) }

\* p is ahead of q: more followers, or as many and a greater engagement rate
Ahead(p, q) ==
    \/ p.followers > q.followers
    \/ p.followers = q.followers /\ p.engagement_rate > q.engagement_rate

\* the rank the code gives the stored profile q in a scope of segment s
RankOf(q, s, scope) == calculateRankings(profiles, q.username, s)[scope].rank

Ranked == ret # NoArg /\ "error" \notin DOMAIN ret

Subject == CHOOSE p \in profiles : p.username = arg.username

\* C12: in each scope the rank is 1 + the number of profiles of the industry
\* and the scope's location that are ahead of the subject (more followers, or
\* as many and a greater engagement rate); two profiles with the same
\* followers and engagement rate get the same rank, and a profile ahead of
\* another never gets a larger rank number than it.
C12_Rank ==
    Ranked =>
        \A scope \in Scopes :
            /\ ret[scope].rank =
                  1 + Cardinality({ p \in InScope(arg.segment, scope) : Ahead(p, Subject) })
            /\ \A q \in profiles :
                  /\ (q.followers = Subject.followers
                      /\ q.engagement_rate = Subject.engagement_rate) =>
                        RankOf(q, arg.segment, scope) = ret[scope].rank
                  /\ Ahead(q, Subject) => RankOf(q, arg.segment, scope) <= ret[scope].rank
                  /\ Ahead(Subject, q) => ret[scope].rank <= RankOf(q, arg.segment, scope)

\* b is first in Texas, where d equals it, and second in the US behind c
C12_Witness ==
    /\ Ranked
    /\ arg.username = "b"
    /\ arg.segment = Segment("fitness", "Austin", "TX", "US")
    /\ profiles = RankProfiles
    /\ ret.state.rank = 1
    /\ ret.national.rank = 2
    /\ ret.city.rank = 1

\* C13: in each scope the total is the number of profiles of the industry and
\* the scope's location, and the scope's fallback (1000, 5000, 50000) when
\* that number is zero; a total of zero is never reported.
C13_Total ==
    Ranked =>
        \A scope \in Scopes :
            LET n == Cardinality(InScope(arg.segment, scope))
                fallback == CASE scope = "city" -> CityFallback
                              [] scope = "state" -> StateFallback
                              [] scope = "national" -> NationalFallback
            IN  /\ ret[scope].total = (IF n = 0 THEN fallback ELSE n)
                /\ ret[scope].total # 0

\* C14: when no profile has the subject's username calculateRankings fails
\* with the not-found error after its one lookup, running no count, and
\* changes nothing stored.
C14_NotFound ==
    [][(ret = NoArg /\ ret' # NoArg /\ \A p \in profiles : p.username # arg.username) =>
        /\ DOMAIN ret' = {"error", "queries"}
        /\ ret'.error = NotFoundMessage
        /\ ret'.queries = 1
        /\ profiles' = profiles
        /\ benchmarks' = benchmarks]_vars

C14_Witness ==
    /\ ret # NoArg
    /\ arg.username = "ghost"
    /\ Cardinality(profiles) = 5
    /\ "error" \in DOMAIN ret

(***************************************************************************)
(* C15, C16, C17: generateInsights                                         *)
(***************************************************************************)
Listed == ret # NoArg /\ "insights" \in DOMAIN ret

Has(type, category) ==
    \E i \in DOMAIN ret.insights : ret.insights[i] = Insight(type, category)

CategoryOrder(c) ==
    CASE c = "engagement" -> 1
      [] c = "frequency" -> 2
      [] c = "content" -> 3
      [] c = "overall" -> 4

\* C15: the list returned has at most 4 entries, at most one per category,
\* in the order engagement, frequency, content, overall; it never holds both
\* the engagement warning and the engagement success, nor both the overall
\* success and the overall warning.
C15_RuleOrder ==
    Listed =>
        /\ Len(ret.insights) <= 4
        /\ \A i, j \in DOMAIN ret.insights :
              i < j => CategoryOrder(ret.insights[i].category)
                          < CategoryOrder(ret.insights[j].category)
        /\ ~(Has("warning", "engagement") /\ Has("success", "engagement"))
        /\ ~(Has("success", "overall") /\ Has("warning", "overall"))

\* all four rules fired
C15_Witness ==
    /\ Listed
    /\ Len(ret.insights) = 4
    /\ ret.insights[2] = Insight("warning", "frequency")
    /\ ret.insights[4] = Insight("success", "overall")

\* the conditions of the rules, in exact arithmetic on hundredths
RateBelow == arg.profile.engagement_rate * arg.benchmarks.avg_engagement[2] * 10
                < arg.benchmarks.avg_engagement[1] * 7 * 100

RateAbove == arg.profile.engagement_rate * arg.benchmarks.avg_engagement[2] * 10
                > arg.benchmarks.avg_engagement[1] * 13 * 100

FrequencyBelow ==
    OrZero(arg.profile.post_frequency) * arg.benchmarks.avg_post_frequency[2] * 10
        < arg.benchmarks.avg_post_frequency[1] * 7 * 100

ReelsBelow == OrZero(arg.profile.reel_percentage) < 30

ScoreTop == ~arg.score.nan /\ arg.score.value >= 85

ScoreLow == ~arg.score.nan /\ arg.score.value < 60

\* C16: generateInsights returns a list that holds the engagement warning
\* iff rate < 0.7 avg, the engagement success iff rate > 1.3 avg (neither at
\* exactly 0.7 avg or 1.3 avg), the frequency warning iff frequency < 0.7
\* avg, the content info iff reels < 30, the overall success iff score >= 85
\* and the overall warning iff score < 60.
C16_Thresholds ==
    ret # NoArg =>
        /\ Listed
        /\ Has("warning", "engagement") <=> RateBelow
        /\ Has("success", "engagement") <=> RateAbove
        /\ Has("warning", "frequency") <=> FrequencyBelow
        /\ Has("info", "content") <=> ReelsBelow
        /\ Has("success", "overall") <=> ScoreTop
        /\ Has("warning", "overall") <=> ScoreLow

\* C17: an empty list is returned only when every metric is in its normal
\* band (0.7 avg <= rate <= 1.3 avg, frequency >= 0.7 avg, reels >= 30,
\* 60 <= score < 85), and no insight is in the list whose rule's condition is
\* false.
C17_NormalBand ==
    Listed =>
        /\ ret.insights = <<>> =>
              /\ ~RateBelow /\ ~RateAbove
              /\ ~FrequencyBelow
              /\ ~ReelsBelow
              /\ ~arg.score.nan /\ arg.score.value >= 60 /\ arg.score.value < 85
        /\ Has("warning", "engagement") => RateBelow
        /\ Has("success", "engagement") => RateAbove
        /\ Has("warning", "frequency") => FrequencyBelow
        /\ Has("info", "content") => ReelsBelow
        /\ Has("success", "overall") => ScoreTop
        /\ Has("warning", "overall") => ScoreLow

(***************************************************************************)
(* C18, C19, C20: POST /api/analyze                                        *)
(***************************************************************************)
Responding == analysis.pc = "resolving" /\ analysis'.pc = "idle"

\* C18: one analysis upserts the baseline store at most once, and not at all
\* when the baseline came from the fresh cache or the peer corpus was empty;
\* the store changes in no other step of the analysis, in particular not while
\* rankings, percentiles, score and insights are computed.
C18_OneUpsert ==
    [][/\ (benchmarks' # benchmarks) =>
             /\ analysis.pc = "resolving"
             /\ writes[1] = 0
             /\ writes'[1] = 1
       /\ Responding =>
             /\ benchmarks' = benchmarks
             /\ writes[1] <= 1
             /\ FromTable(result[1]) => writes[1] = 0
             /\ PeerCorpus(seg[1]) = {} => writes[1] = 0
             /\ writes[1] = 1 => result[1].sample_size = Cardinality(PeerCorpus(seg[1]))]_vars

\* a second analysis was answered from the baseline the first one stored
C18_Witness ==
    /\ analysis.pc = "idle"
    /\ calls = 2
    /\ Len(benchmarks) = 1
    /\ ret # NoArg
    /\ ret.status = 200

\* C19: an analysis answered from the defaults table (empty peer corpus)
\* reports both percentiles as 50 and sampleSize = 0.
C19_DegradedResponse ==
    [][(/\ Responding
        /\ ~FromTable(result[1])
        /\ PeerCorpus(seg[1]) = {}
        /\ ret'.status = 200) =>
            /\ ret'.score.followerPercentile = 50
            /\ ret'.score.engagementPercentile = 50
            /\ ret'.benchmarks.sampleSize = 0]_vars

\* a stored profile of the username scraped less than 7 days ago
FreshProfiles ==
    { p \in profiles :
        p.username = arg.username /\ now - p.last_scraped < ProfileFreshDays * 24 }

LookingUp == analysis.pc = "lookup" /\ analysis'.pc # "lookup"

Scraping == analysis.pc = "scrape" /\ analysis'.pc # "scrape"

\* the scrape was made, the row of the username saved and the analysis goes on
ScrapedAndSaved ==
    /\ analysis'.pc = "benchmarks"
    /\ analysis'.scrapes = 1
    /\ \E p \in profiles' :
          /\ p.username = arg.username
          /\ p.last_scraped = now
          /\ p.scrape_count =
                IF \E q \in profiles : q.username = arg.username
                THEN (CHOOSE q \in profiles : q.username = arg.username).scrape_count + 1
                ELSE 1
          /\ analysis'.profile = <<p>>
          /\ \A q \in profiles' : q.username = arg.username => q = p
    /\ \A q \in profiles : q.username # arg.username => q \in profiles'

\* the cache side of C20, common to the claim and its amendment
ProfileCache ==
    /\ (profiles' # profiles \/ analysis'.scrapes # analysis.scrapes) =>
          (Scraping \/ analysis'.scrapes = 0)
    /\ LookingUp =>
          IF FreshProfiles # {}
          THEN /\ analysis'.pc = "benchmarks"
               /\ analysis'.profile[1] \in FreshProfiles
               /\ analysis'.scrapes = 0
               /\ profiles' = profiles
          ELSE analysis'.pc = "scrape"

\* C20 as stated: the scraper is called only when no row of the username was
\* scraped within 7 days; then exactly one scrape is made and the row is
\* upserted with last_scraped = now and its scrape_count (1 if new, one more
\* if not), so that the next analysis finds it fresh.
C20_Original ==
    [][/\ ProfileCache
       /\ Scraping => ScrapedAndSaved]_vars

\* C20 as amended: the same when the scrape succeeds; when the scraper fails
\* the one scrape was made, the analysis answers 500 and no row changes.
C20_ProfileCache ==
    [][/\ ProfileCache
       /\ Scraping =>
             \/ ScrapedAndSaved
             \/ /\ analysis'.pc = "idle"
                /\ analysis'.scrapes = 1
                /\ ret'.status = 500
                /\ profiles' = profiles]_vars

\* w, scraped twice before, went stale and was scraped a third time
C20_Witness ==
    /\ analysis.scrapes = 1
    /\ \E p \in profiles :
          p.username = "w" /\ p.scrape_count = 3 /\ p.last_scraped = now

(***************************************************************************)
(* C21: a cache hit against a recomputation                                *)
(***************************************************************************)
\* the peer corpus of segment s at time t
PeerCorpusAt(s, t) ==
    { p \in profiles :
        /\ SqlEq(p.industry, s.industry)
        /\ \/ SqlEq(p.location_city, s.city)
           \/ SqlEq(p.location_state, s.state)
           \/ SqlEq(p.location_country, s.country)
        /\ t - p.last_scraped < CorpusDays * 24 }

\* baseline b is what a recomputation over the corpus F returns
RecomputationOf(b, F) ==
    /\ F # {}
    /\ b.sample_size = Cardinality(F)
    /\ \E rows \in RowOrders(F) :
          /\ SameBag(b.follower_distribution, Column(rows, "followers"))
          /\ SameBag(b.engagement_distribution, Column(rows, "engagement_rate"))
    /\ \A c \in Averages : RatEq(b[c], MeanOf(F, c))

\* C21: the baseline getBenchmarks returns on a cache hit has the averages,
\* the distributions and the sample size that a recomputation for the same
\* segment would return, the corpus of the segment being what it was when
\* the row was stored.
C21_CacheTransparent ==
    [][\A r \in Requests :
        (/\ pc[r] = "cached" /\ pc'[r] = "done"
         /\ PeerCorpusAt(seg[r], result'[r].updated_at) = PeerCorpusAt(seg[r], now)) =>
            RecomputationOf(result'[r], PeerCorpusAt(seg[r], now))]_vars

(***************************************************************************)
(* C22: invariant of the baseline store                                    *)
(***************************************************************************)
\* the call of request r has returned the defaults table
ReturnedDefaults(r) ==
    /\ pc[r] = "done"
    /\ "sample_size" \notin DOMAIN result[r]

\* C22: every stored baseline row has location_type 'city', a sample size of
\* at least 1 and both distributions of that length, and a call that returned
\* the defaults stored nothing.
C22_StoreInvariant ==
    /\ \A i \in DOMAIN benchmarks :
          /\ benchmarks[i].location_type = "city"
          /\ benchmarks[i].sample_size >= 1
          /\ Len(benchmarks[i].follower_distribution) = benchmarks[i].sample_size
          /\ Len(benchmarks[i].engagement_distribution) = benchmarks[i].sample_size
    /\ \A r \in Requests : ReturnedDefaults(r) => writes[r] = 0

\* a row of three samples is stored and another call has returned the defaults
C22_Witness ==
    /\ \E i \in DOMAIN benchmarks : benchmarks[i].sample_size = 3
    /\ \E r \in Requests : ReturnedDefaults(r) /\ reads[r] = 1

(***************************************************************************)
(* C23: bounds of a rank                                                   *)
(***************************************************************************)
\* C23: in every scope the rank is at least 1 and at most the number of
\* profiles of the scope plus 1, and when the subject is itself a profile of
\* the scope the rank is at most the total reported.
C23_RankBounds ==
    Ranked =>
        \A scope \in Scopes :
            /\ ret[scope].rank >= 1
            /\ ret[scope].rank <= Cardinality(InScope(arg.segment, scope)) + 1
            /\ Subject \in InScope(arg.segment, scope) =>
                  ret[scope].rank <= ret[scope].total

\* a is last of the four fitness profiles of the US and of the three of Texas
C23_Witness ==
    /\ Ranked
    /\ arg.username = "a"
    /\ Subject \in InScope(arg.segment, "national")
    /\ ret.national.rank = 4
    /\ ret.national.total = 4
    /\ ret.state.rank = 3
    /\ ret.state.total = 3

====
